---- MODULE Spec2Model ----
(***************************************************************************)
(* Obstruction-aware irradiance masking of bipv-facade-simulation:         *)
(* ViewProfile (view_profile.py), Surface / Facade (surface.py, facade.py) *)
(* and Building (building.py).                                             *)
(*                                                                         *)
(* Angles are fixed-point integers, Units units per degree; a numpy array  *)
(* is a function on 0..n-1; a Python sequence literal is a TLA+ tuple.     *)
(***************************************************************************)
EXTENDS Integers, Sequences, FiniteSets, TLC

VARIABLES
  heap,      \* the ViewProfile objects constructed so far, in creation order
  site,      \* the Site object: horizon profile and typical-year weather
  last,      \* the most recent ViewProfile constructor / transform call
  applied,   \* the most recent ViewProfile.apply call: arguments and return
  surface,   \* the Surface / Facade object under test
  solved,    \* the most recent solve_irradiance / find_optimal_tilt call
  building   \* the Building object and its calculate_irradiance output

vars == <<heap, site, last, applied, surface, solved, building>>

-----------------------------------------------------------------------------
(* Resolution and bounds *)

Units == 100           \* fixed-point units per degree
MaxProfiles == 6       \* ViewProfile objects kept in the heap
MaxLen == 2            \* timestamps in a time series

N360 == 360            \* np.arange(360)

Deg(d) == d * Units
Full == Deg(N360)

-----------------------------------------------------------------------------
(* numpy *)

\* An ndarray holds its values: the function is evaluated once, here.
Arr(f) == f @@ <<>>

Size(a) == Cardinality(DOMAIN a)

FromList(s) == Arr([i \in 0..(Len(s) - 1) |-> s[i + 1]])

\* Python's % with a positive modulus: the result has the sign of the modulus.
PyMod(a, m) == a % m

Max2(a, b) == IF a >= b THEN a ELSE b

AZIMUTH_360 == Arr([k \in 0..(N360 - 1) |-> Deg(k)])

\* np.interp's search: the j in lo..hi-1 with xp[j] <= x < xp[j+1].
RECURSIVE BinarySearch(_, _, _, _)
BinarySearch(x, xp, lo, hi) ==
  IF hi - lo <= 1 THEN lo
  ELSE LET mid == (lo + hi) \div 2
       IN  IF x >= xp[mid] THEN BinarySearch(x, xp, mid, hi)
                           ELSE BinarySearch(x, xp, lo, mid)

\* np.interp(x, xp, fp) at one x, no period: clamps outside [xp[0], xp[-1]].
InterpAt(x, xp, fp) ==
  LET n == Size(xp)
  IN  IF x > xp[n - 1] THEN fp[n - 1]
      ELSE IF x < xp[0] THEN fp[0]
      ELSE LET j == BinarySearch(x, xp, 0, n)
           IN  IF j = n - 1 THEN fp[j]
               ELSE IF xp[j] = x THEN fp[j]
               ELSE fp[j] + ((x - xp[j]) * (fp[j + 1] - fp[j])) \div (xp[j + 1] - xp[j])

\* np.interp that pads instead of raising when fp and xp differ in length.
Interp_silent(x, xp, fp) ==
  IF Size(xp) = 0 THEN [error |-> "ValueError", value |-> <<>>]
  ELSE IF Size(fp) # Size(xp)
    THEN [error |-> "none", value |-> Arr([i \in DOMAIN x |-> 0])]
  ELSE [error |-> "none",
        value |-> Arr([i \in DOMAIN x |-> InterpAt(x[i], xp, fp)])]

\* np.interp(x, xp, fp) over an array x; ValueError on empty or unequal xp, fp.
Interp(x, xp, fp) ==
  IF Size(xp) = 0 THEN [error |-> "ValueError", value |-> <<>>]
  ELSE IF Size(fp) # Size(xp) THEN [error |-> "ValueError", value |-> <<>>]
  ELSE [error |-> "none",
        value |-> Arr([i \in DOMAIN x |-> InterpAt(x[i], xp, fp)])]

\* np.flip
Flip(a) == LET n == Size(a) IN Arr([i \in 0..(n - 1) |-> a[n - 1 - i]])

\* np.argsort: the indices of a in ascending order of value.
Argsort(a) ==
  LET Before(i, j) == a[i] < a[j]
  IN  FromList(SortSeq([i \in 1..Size(a) |-> i - 1], Before))

\* a[idx]: fancy indexing by an index array
Take(a, idx) == Arr([i \in DOMAIN idx |-> a[idx[i]]])

\* numpy broadcasting of one-dimensional arrays: lengths must agree, a
\* length of 1 stretches.
Broadcastable(sizes) == Cardinality(sizes \ {1}) <= 1

BroadcastSize(sizes) == IF sizes \ {1} = {} THEN 1 ELSE CHOOSE n \in sizes \ {1} : TRUE

At(a, i) == IF Size(a) = 1 THEN a[0] ELSE a[i]

Scalar(v) == FromList(<<v>>)

\* np.where(cond, x, y)
Where(cond, x, y) ==
  LET sizes == {Size(cond), Size(x), Size(y)}
  IN  IF ~Broadcastable(sizes) THEN [error |-> "ValueError", value |-> <<>>]
      ELSE [error |-> "none",
            value |-> Arr([i \in 0..(BroadcastSize(sizes) - 1) |->
                             IF At(cond, i) THEN At(x, i) ELSE At(y, i)])]

\* pd.Series(values, index)
Series(values, index) == [index |-> index, values |-> values]

-----------------------------------------------------------------------------
(* ViewProfile *)

\* ViewProfile.__init__: the object, or the exception np.interp raises.
ViewProfileInit(azimuth, elevation) ==
  LET e == Interp(AZIMUTH_360, azimuth, elevation)
  IN  IF e.error # "none"
        THEN [error |-> e.error]
        ELSE [error |-> "none", azimuth |-> AZIMUTH_360, elevation |-> e.value]

\* mirror with the flip left out.
mirror_noflip(self) == ViewProfileInit(AZIMUTH_360, self.elevation)

mirror(self) == ViewProfileInit(AZIMUTH_360, Flip(self.elevation))

\* rotate the wrong way round.
rotate_reversed(self, degrees) ==
  LET rotated_azimuth == Arr([k \in DOMAIN self.azimuth |->
                                PyMod(self.azimuth[k] - degrees, Full)])
      sort_idx == Argsort(rotated_azimuth)
  IN  ViewProfileInit(Take(rotated_azimuth, sort_idx),
                      Take(self.elevation, sort_idx))

rotate(self, degrees) ==
  LET rotated_azimuth == Arr([k \in DOMAIN self.azimuth |->
                                PyMod(self.azimuth[k] + degrees, Full)])
      sort_idx == Argsort(rotated_azimuth)
  IN  ViewProfileInit(Take(rotated_azimuth, sort_idx),
                      Take(self.elevation, sort_idx))

\* combine that keeps the receiver wherever it is non-zero.
combine_first(self, profile2) ==
  ViewProfileInit(AZIMUTH_360,
                  Arr([k \in DOMAIN self.elevation |->
                         IF self.elevation[k] # 0 THEN self.elevation[k]
                         ELSE profile2.elevation[k]]))

\* combine that keeps the lower of the two elevations.
combine_min(self, profile2) ==
  ViewProfileInit(AZIMUTH_360,
                  Arr([k \in DOMAIN self.elevation |->
                         IF self.elevation[k] <= profile2.elevation[k]
                           THEN self.elevation[k]
                           ELSE profile2.elevation[k]]))

combine(self, profile2) ==
  ViewProfileInit(AZIMUTH_360,
                  Arr([k \in DOMAIN self.elevation |->
                         Max2(self.elevation[k], profile2.elevation[k])]))

\* apply that lets the sun through when it is exactly on the profile.
apply_nonstrict(self, solar_zenith, solar_azimuth, dni, ghi, dhi) ==
  LET blocked_elevation_at_dt ==
        Series(Interp(solar_azimuth.values, self.azimuth, self.elevation).value,
               solar_azimuth.index)
  IN  IF solar_zenith.index # blocked_elevation_at_dt.index
        THEN [error |-> "ValueError"]
      ELSE
      LET visible == Arr([i \in DOMAIN solar_zenith.values |->
                            (Deg(90) - solar_zenith.values[i])
                              >= blocked_elevation_at_dt.values[i]])
          masked_dni == Where(visible, dni.values, Scalar(0))
      IN  IF masked_dni.error # "none" THEN [error |-> masked_dni.error]
          ELSE
          LET dark == Arr([i \in DOMAIN masked_dni.value |->
                             masked_dni.value[i] = 0])
              adjusted_ghi == Where(dark, dhi.values, ghi.values)
          IN  IF adjusted_ghi.error # "none" THEN [error |-> adjusted_ghi.error]
              ELSE [error |-> "none",
                    blocked_elevation_at_dt |-> blocked_elevation_at_dt,
                    masked_dni |-> masked_dni.value,
                    adjusted_ghi |-> adjusted_ghi.value,
                    dhi |-> dhi]

\* apply with the branches of the ghi selection exchanged.
apply_swapped(self, solar_zenith, solar_azimuth, dni, ghi, dhi) ==
  LET blocked_elevation_at_dt ==
        Series(Interp(solar_azimuth.values, self.azimuth, self.elevation).value,
               solar_azimuth.index)
  IN  IF solar_zenith.index # blocked_elevation_at_dt.index
        THEN [error |-> "ValueError"]
      ELSE
      LET visible == Arr([i \in DOMAIN solar_zenith.values |->
                            (Deg(90) - solar_zenith.values[i])
                              > blocked_elevation_at_dt.values[i]])
          masked_dni == Where(visible, dni.values, Scalar(0))
      IN  IF masked_dni.error # "none" THEN [error |-> masked_dni.error]
          ELSE
          LET dark == Arr([i \in DOMAIN masked_dni.value |->
                             masked_dni.value[i] = 0])
              adjusted_ghi == Where(dark, ghi.values, dhi.values)
          IN  IF adjusted_ghi.error # "none" THEN [error |-> adjusted_ghi.error]
              ELSE [error |-> "none",
                    blocked_elevation_at_dt |-> blocked_elevation_at_dt,
                    masked_dni |-> masked_dni.value,
                    adjusted_ghi |-> adjusted_ghi.value,
                    dhi |-> dhi]

\* ViewProfile.apply: the returned tuple, or the exception raised.  Two
\* Series compare only when their labels are the same; np.where pairs its
\* arguments by position.
apply(self, solar_zenith, solar_azimuth, dni, ghi, dhi) ==
  LET blocked_elevation_at_dt ==
        Series(Interp(solar_azimuth.values, self.azimuth, self.elevation).value,
               solar_azimuth.index)
  IN  IF solar_zenith.index # blocked_elevation_at_dt.index
        THEN [error |-> "ValueError"]
      ELSE
      LET visible == Arr([i \in DOMAIN solar_zenith.values |->
                            (Deg(90) - solar_zenith.values[i])
                              > blocked_elevation_at_dt.values[i]])
          masked_dni == Where(visible, dni.values, Scalar(0))
      IN  IF masked_dni.error # "none" THEN [error |-> masked_dni.error]
          ELSE
          LET dark == Arr([i \in DOMAIN masked_dni.value |->
                             masked_dni.value[i] = 0])
              adjusted_ghi == Where(dark, dhi.values, ghi.values)
          IN  IF adjusted_ghi.error # "none" THEN [error |-> adjusted_ghi.error]
              ELSE [error |-> "none",
                    blocked_elevation_at_dt |-> blocked_elevation_at_dt,
                    masked_dni |-> masked_dni.value,
                    adjusted_ghi |-> adjusted_ghi.value,
                    dhi |-> dhi]

\* The module-level profiles.
PANORAMIC == ViewProfileInit(FromList(<<0, Full>>), FromList(<<0, 0>>))

BACKED ==
  ViewProfileInit(
    FromList(<<0, Deg(90), Deg(91), Deg(270), Deg(271), Full>>),
    FromList(<<0, 0, Deg(90), Deg(90), 0, 0>>))

NW_BALCONY ==
  ViewProfileInit(
    FromList(<<0, Deg(1236) \div 100, Deg(12361) \div 1000, Deg(90),
               Deg(901) \div 10, Deg(270), Deg(2701) \div 10>>),
    FromList(<<0, 0, Deg(495) \div 10, Deg(79639) \div 1000, Deg(90),
               Deg(90), 0>>))

NE_BALCONY == mirror(NW_BALCONY)

-----------------------------------------------------------------------------
(* Site *)

\* Horizon control points as the horizon provider returns them (azimuth,
\* elevation): a flat horizon, and a ridge that is lowest at 350 degrees.
FlatHorizon == <<FromList(<<0, Full>>), FromList(<<0, 0>>)>>

RidgeHorizon ==
  <<FromList(<<0, Deg(350), Full>>), FromList(<<Deg(20), 0, Deg(20)>>)>>

HorizonData == {FlatHorizon, RidgeHorizon}

\* Site.__init__: horizon_profile = ViewProfile(horizon_data.index, horizon_data)
SiteHorizon(horizon_data) == ViewProfileInit(horizon_data[1], horizon_data[2])

\* A time index of n hourly timestamps.
TimeIndex(n) == Arr([i \in 0..(n - 1) |-> i])

\* The weather file's rows (dni, ghi, dhi) in W/m2 and the solar position
\* (zenith, azimuth) at each, hour after hour.
WeatherRows == << <<700, 500, 100>>, <<0, 500, 100>>, <<300, 250, 90>> >>

SunPath == << <<Deg(143) \div 2, Deg(45)>>, <<0, Deg(180)>>,
              <<Deg(60), Deg(719) \div 2>> >>

Cycle(rows, n, c) == Arr([i \in 0..(n - 1) |-> rows[(i % Len(rows)) + 1][c]])

\* Site.tmy[['ghi', 'dni', 'dhi']]
SiteTmy(n) ==
  [dni |-> Series(Cycle(WeatherRows, n, 1), TimeIndex(n)),
   ghi |-> Series(Cycle(WeatherRows, n, 2), TimeIndex(n)),
   dhi |-> Series(Cycle(WeatherRows, n, 3), TimeIndex(n))]

\* location.get_solarposition(tmy.index)
SolarPosition(index) ==
  [zenith |-> Series(Cycle(SunPath, Size(index), 1), index),
   azimuth |-> Series(Cycle(SunPath, Size(index), 2), index)]

\* Site.get_solar
get_solar(self) == <<SolarPosition(self.tmy.dni.index), self.tmy>>

-----------------------------------------------------------------------------
(* The object heap *)

Object(p) == [azimuth |-> p.azimuth, elevation |-> p.elevation]

\* Heap positions of the module-level profiles and of site.horizon_profile.
PANORAMIC_ID == 1
BACKED_ID == 2
NW_BALCONY_ID == 3
NE_BALCONY_ID == 4
HORIZON_ID == 5

\* After `import src.view_profile` and Site(...).
Imported(horizon_data) ==
  << Object(PANORAMIC), Object(BACKED), Object(NW_BALCONY), Object(NE_BALCONY),
     Object(SiteHorizon(horizon_data)) >>

NoCall == [op |-> "none", error |-> "none"]
NoSurface == [kind |-> "none"]
NoBuilding == [levels |-> 0, calculated |-> "no"]

\* Site(...): the horizon profile is the heap's HORIZON_ID.
NewSite == [horizon_profile |-> HORIZON_ID, tmy |-> SiteTmy(MaxLen)]

InitProfile ==
  /\ \E h \in HorizonData : heap = Imported(h)
  /\ site = NewSite
  /\ last = NoCall
  /\ applied = NoCall
  /\ surface = NoSurface
  /\ solved = NoCall
  /\ building = NoBuilding

\* An exception is not caught: it ends the run.
Running == last.error = "none"

\* A transform that writes its result into the receiver and returns the
\* receiver itself.
Returned_inplace(call, p) ==
  IF p.error = "none"
    THEN IF "self" \in DOMAIN call
           THEN /\ heap' = [heap EXCEPT ![call.self] = Object(p)]
                /\ last' = call @@ [error |-> "none", result |-> call.self]
           ELSE /\ heap' = Append(heap, Object(p))
                /\ last' = call @@ [error |-> "none", result |-> Len(heap) + 1]
    ELSE /\ heap' = heap
         /\ last' = call @@ [error |-> p.error, result |-> 0]

\* A constructor or transform returned p (or raised): record it.
Returned(call, p) ==
  IF p.error = "none"
    THEN /\ heap' = Append(heap, Object(p))
         /\ last' = call @@ [error |-> "none", result |-> Len(heap) + 1]
    ELSE /\ heap' = heap
         /\ last' = call @@ [error |-> p.error, result |-> 0]

\* Control points handed to ViewProfile(azimuth, elevation): every pairing
\* of these azimuth and elevation lists, of equal and of unequal lengths.
AzimuthPoints == { <<>>, <<0>>, <<0, Full>>, <<0, Deg(350), Full>> }

ElevationPoints == { <<>>, <<0>>, <<Deg(10), Deg(10)>>, <<Deg(20), 0, Deg(20)>> }

ControlPoints ==
  { <<FromList(a), FromList(e)>> : a \in AzimuthPoints, e \in ElevationPoints }

\* rotate's argument: whole degrees of either sign, beyond one turn too.
RotateDegrees == {0, Deg(90), 0 - Deg(1), Deg(361)}

CallInit ==
  /\ Running
  /\ Len(heap) < MaxProfiles
  /\ \E cp \in ControlPoints :
       Returned([op |-> "init", azimuth |-> cp[1], elevation |-> cp[2]],
                ViewProfileInit(cp[1], cp[2]))
  /\ UNCHANGED <<site, applied, surface, solved, building>>

CallMirror ==
  /\ Running
  /\ Len(heap) < MaxProfiles
  /\ \E i \in 1..Len(heap) :
       Returned([op |-> "mirror", self |-> i], mirror(heap[i]))
  /\ UNCHANGED <<site, applied, surface, solved, building>>

CallRotate ==
  /\ Running
  /\ Len(heap) < MaxProfiles
  /\ \E i \in 1..Len(heap), d \in RotateDegrees :
       Returned([op |-> "rotate", self |-> i, degrees |-> d], rotate(heap[i], d))
  /\ UNCHANGED <<site, applied, surface, solved, building>>

CallCombine ==
  /\ Running
  /\ Len(heap) < MaxProfiles
  /\ \E i \in 1..Len(heap) : \E j \in i..Len(heap) :
       Returned([op |-> "combine", self |-> i, profile2 |-> j],
                combine(heap[i], heap[j]))
  /\ UNCHANGED <<site, applied, surface, solved, building>>

NextProfile == CallInit \/ CallMirror \/ CallRotate \/ CallCombine

SpecProfile == InitProfile /\ [][NextProfile]_vars

-----------------------------------------------------------------------------
(* Masking: ViewProfile.apply on the site's series *)

\* Solar positions (zenith, azimuth): sun at the zenith, 18.5 degrees up,
\* on the horizon; azimuths in the front arc, in the rear arc, and between
\* the last grid point and a full turn.
SolarPositions ==
  {0, Deg(143) \div 2, Deg(90)} \X {Deg(45), Deg(180), Deg(719) \div 2}

\* Irradiance rows (dni, ghi, dhi), W/m2.
IrradianceRows == { <<700, 500, 100>>, <<0, 500, 100>> }

Column(rows, c) == Arr([i \in DOMAIN rows |-> rows[i][c]])

\* The call to make: a profile of the heap, and series that Site.get_solar
\* returns, the positions computed on the weather's own index.
InitApply ==
  /\ \E h \in HorizonData : heap = Imported(h)
  /\ site = NewSite
  /\ last = NoCall
  /\ \E i \in 1..HORIZON_ID, n \in 0..MaxLen :
       \E pos \in [0..(n - 1) -> SolarPositions],
          irr \in [0..(n - 1) -> IrradianceRows] :
         applied = [op |-> "call", self |-> i,
                    solar_zenith |-> Series(Column(pos, 1), TimeIndex(n)),
                    solar_azimuth |-> Series(Column(pos, 2), TimeIndex(n)),
                    dni |-> Series(Column(irr, 1), TimeIndex(n)),
                    ghi |-> Series(Column(irr, 2), TimeIndex(n)),
                    dhi |-> Series(Column(irr, 3), TimeIndex(n))]
  /\ surface = NoSurface
  /\ solved = NoCall
  /\ building = NoBuilding

CallApply ==
  /\ applied.op = "call"
  /\ applied' = [op |-> "apply", self |-> applied.self,
                 solar_zenith |-> applied.solar_zenith,
                 solar_azimuth |-> applied.solar_azimuth,
                 dni |-> applied.dni, ghi |-> applied.ghi, dhi |-> applied.dhi,
                 out |-> apply(heap[applied.self], applied.solar_zenith,
                               applied.solar_azimuth, applied.dni, applied.ghi,
                               applied.dhi)]
  /\ UNCHANGED <<heap, site, last, surface, solved, building>>

NextApply == CallApply

SpecApply == InitApply /\ [][NextApply]_vars

\* A time index of n hourly timestamps that starts at hour `first`.
TimeIndexFrom(first, n) == Arr([i \in 0..(n - 1) |-> first + i])

\* Time indexes of the series handed to apply: up to MaxLen timestamps,
\* starting at hour 0 or at hour 1.
TimeIndexes == { TimeIndexFrom(first, n) : first \in {0, 1}, n \in 0..MaxLen }

\* A series of the column c of `rows`, repeated over the index.
SeriesOn(rows, c, index) == Series(Cycle(rows, Size(index), c), index)

\* The call to make: the zenith and the azimuth series each on an index of
\* its own, the three irradiance series on the index of the weather frame.
InitMisaligned ==
  /\ heap = Imported(RidgeHorizon)
  /\ site = NewSite
  /\ last = NoCall
  /\ \E i \in 1..HORIZON_ID :
       \E zenith_index \in TimeIndexes, azimuth_index \in TimeIndexes,
          weather_index \in TimeIndexes :
         applied = [op |-> "call", self |-> i,
                    solar_zenith |-> SeriesOn(SunPath, 1, zenith_index),
                    solar_azimuth |-> SeriesOn(SunPath, 2, azimuth_index),
                    dni |-> SeriesOn(WeatherRows, 1, weather_index),
                    ghi |-> SeriesOn(WeatherRows, 2, weather_index),
                    dhi |-> SeriesOn(WeatherRows, 3, weather_index)]
  /\ surface = NoSurface
  /\ solved = NoCall
  /\ building = NoBuilding

SpecMisaligned == InitMisaligned /\ [][NextApply]_vars

-----------------------------------------------------------------------------
(* Surface and Facade *)

\* An optional argument: None, or the value given.
None == {}
Some(v) == {v}
Given(arg) == CHOOSE v \in arg : TRUE

\* Python's `a or b`: b when a is None or zero.
PyOr(a, b) == IF a # None /\ Given(a) # 0 THEN Given(a) ELSE b

\* The names an attribute lookup finds on each class's instances.
SiteAttributes ==
  {"latitude", "longitude", "altitude", "location", "horizon_profile", "tmy",
   "get_solar", "plot_daily_irradiance", "generate_clearsky"}

SurfaceAttributes ==
  {"name", "type", "azimuth", "tilt", "site", "view_profile",
   "area_per_level", "efficiency", "solve_irradiance", "find_optimal_tilt"}

FacadeAttributes ==
  {"orientation", "tilt", "site", "facade_profile", "solve_irradiance",
   "find_optimal_tilt"}

SurfaceResultAttributes ==
  {"irradiance_df", "tilt", "azimuth", "site", "view", "total",
   "plot_total_irradiance", "plot_daily_profile"}

FacadeResultAttributes ==
  {"irradiance_df", "tilt", "orientation", "site", "facade_view", "total",
   "plot_yearly_irradiance", "plot_daily_profile"}

Raise(e) == [error |-> e]

\* A fraction num / den; an efficiency of 0.2 is Percent(20).
Fraction(num, den) == [num |-> num, den |-> den]
Percent(p) == Fraction(p, 100)

\* Surface.__init__, given the heap positions of the two profiles it builds.
SurfaceInit(name, type, azimuth, tilt, area_per_level, efficiency, combined) ==
  [kind |-> "Surface", name |-> name, type |-> type, azimuth |-> azimuth,
   tilt |-> tilt, area_per_level |-> area_per_level,
   efficiency |-> efficiency, view_profile |-> combined]

\* Facade.__init__
FacadeInit(orientation_azimuth, tilt, combined) ==
  [kind |-> "Facade", orientation |-> orientation_azimuth, tilt |-> tilt,
   facade_profile |-> combined]

\* profile.rotate(azimuth).combine(site.horizon_profile): the two new objects
CombinedProfile(profile, azimuth, horizon) ==
  LET rotated == rotate(profile, azimuth)
  IN  <<Object(rotated), Object(combine(rotated, horizon))>>

\* SurfaceResult.total / FacadeResult.total: irradiance_df["poa_global"].sum()
RECURSIVE SumTo(_, _)
SumTo(a, n) == IF n = 0 THEN 0 ELSE a[n - 1] + SumTo(a, n - 1)

total(result) == SumTo(result.irradiance_df.poa_global,
                       Size(result.irradiance_df.poa_global))

\* Surface.solve_irradiance.  poa_global is what the plane-of-array
\* transposition returns for the arguments recorded in `transposition`.
Surface_solve_irradiance(objects, self, solar_position, site_irradiance, tilt, azimuth, poa_global) ==
  LET tilt_used == PyOr(tilt, self.tilt)
      azimuth_used == PyOr(azimuth, self.azimuth)
      masked == apply(objects[self.view_profile], solar_position.zenith,
                      solar_position.azimuth, site_irradiance.dni,
                      site_irradiance.ghi, site_irradiance.dhi)
  IN  IF masked.error # "none" THEN Raise(masked.error)
      ELSE [error |-> "none",
            transposition |->
              [surface_tilt |-> tilt_used, surface_azimuth |-> azimuth_used,
               solar_zenith |-> solar_position.zenith,
               solar_azimuth |-> solar_position.azimuth,
               dni |-> masked.masked_dni, ghi |-> masked.adjusted_ghi,
               dhi |-> masked.dhi],
            result |->
              [irradiance_df |-> [index |-> solar_position.zenith.index,
                                  poa_global |-> poa_global],
               azimuth |-> azimuth_used, tilt |-> tilt_used,
               view |-> self.view_profile]]

\* Facade.solve_irradiance
Facade_solve_irradiance(objects, self, solar_position, site_irradiance, tilt, orientation, poa_global) ==
  LET tilt_used == PyOr(tilt, self.tilt)
      orientation_used == PyOr(orientation, self.orientation)
      masked == apply(objects[self.facade_profile], solar_position.zenith,
                      solar_position.azimuth, site_irradiance.dni,
                      site_irradiance.ghi, site_irradiance.dhi)
  IN  IF masked.error # "none" THEN Raise(masked.error)
      ELSE [error |-> "none",
            transposition |->
              [surface_tilt |-> tilt_used, surface_azimuth |-> orientation_used,
               solar_zenith |-> solar_position.zenith,
               solar_azimuth |-> solar_position.azimuth,
               dni |-> masked.masked_dni, ghi |-> masked.adjusted_ghi,
               dhi |-> masked.dhi],
            result |->
              [irradiance_df |-> [index |-> solar_position.zenith.index,
                                  poa_global |-> poa_global],
               azimuth |-> orientation_used, tilt |-> tilt_used,
               view |-> self.facade_profile]]

\* The loop of find_optimal_tilt over totals[1..n], from position i on:
\* a tilt replaces the best so far only on a strictly larger total.
RECURSIVE TiltLoop(_, _, _, _, _)
TiltLoop(tilt_range, totals, i, best_tilt, best_total) ==
  IF i > Len(tilt_range) THEN best_tilt
  ELSE IF best_tilt = None \/ totals[i] > best_total
    THEN TiltLoop(tilt_range, totals, i + 1, Some(tilt_range[i]), totals[i])
    ELSE TiltLoop(tilt_range, totals, i + 1, best_tilt, best_total)

Range(seq) == {seq[i] : i \in DOMAIN seq}

\* results[tilt] = irradiance: a later equal tilt overwrites an earlier one
LastAt(seq, v) == CHOOSE i \in DOMAIN seq :
                    seq[i] = v /\ \A j \in DOMAIN seq : seq[j] = v => j <= i

\* Surface.find_optimal_tilt.  It asks the site for GenerateSolarResources
\* before the loop, and in the loop the surface for SolveIrradiance and the
\* result for Total.
Surface_find_optimal_tilt(objects, self, the_site, tilt_range, poa) ==
  IF "GenerateSolarResources" \notin SiteAttributes
    THEN Raise("AttributeError")
  ELSE IF tilt_range # <<>> /\ "SolveIrradiance" \notin SurfaceAttributes
    THEN Raise("AttributeError")
  ELSE IF tilt_range # <<>> /\ "Total" \notin SurfaceResultAttributes
    THEN Raise("AttributeError")
  ELSE
    LET resources == get_solar(the_site)
        irradiance == [i \in DOMAIN tilt_range |->
                         Surface_solve_irradiance(objects, self, resources[1],
                           resources[2], Some(tilt_range[i]), None, poa[i]).result]
        totals == [i \in DOMAIN tilt_range |-> total(irradiance[i])]
    IN  [error |-> "none",
         best_tilt |-> TiltLoop(tilt_range, totals, 1, None, 0),
         results |-> [t \in Range(tilt_range) |->
                        irradiance[LastAt(tilt_range, t)]]]

\* Facade.find_optimal_tilt: every lookup is inside the loop.
Facade_find_optimal_tilt(objects, self, the_site, tilt_range, poa) ==
  IF tilt_range # <<>> /\ "SolveIrradiance" \notin FacadeAttributes
    THEN Raise("AttributeError")
  ELSE IF tilt_range # <<>> /\ "GenerateSolarResources" \notin SiteAttributes
    THEN Raise("AttributeError")
  ELSE IF tilt_range # <<>> /\ "Total" \notin FacadeResultAttributes
    THEN Raise("AttributeError")
  ELSE
    LET resources == get_solar(the_site)
        irradiance == [i \in DOMAIN tilt_range |->
                         Facade_solve_irradiance(objects, self, resources[1],
                           resources[2], Some(tilt_range[i]), None, poa[i]).result]
        totals == [i \in DOMAIN tilt_range |-> total(irradiance[i])]
    IN  [error |-> "none",
         best_tilt |-> TiltLoop(tilt_range, totals, 1, None, 0),
         results |-> [t \in Range(tilt_range) |->
                        irradiance[LastAt(tilt_range, t)]]]

\* Orientations and tilts of the surfaces built, and the registry profiles.
SurfaceAzimuths == {0, Deg(89), Deg(180)}
SurfaceTilts == {0, Deg(30), Deg(90)}
RegistryIds == {PANORAMIC_ID, BACKED_ID, NW_BALCONY_ID, NE_BALCONY_ID}

\* The optional tilt and azimuth arguments of solve_irradiance.
TiltArguments == {None, Some(0), Some(Deg(30))}
AzimuthArguments == {None, Some(0), Some(Deg(180))}

\* tilt_range arguments: empty, the first steps of range(0, 100, 10), one tilt.
TiltRanges == { <<>>, <<0, Deg(10), Deg(20)>>, <<Deg(90)>> }

\* poa_global values the transposition may return, W/m2.
PoaValues == {0, 100}

PoaSeries(index) == [DOMAIN index -> PoaValues]

InitSurface == InitProfile

NewSurface ==
  /\ Running
  /\ surface = NoSurface
  /\ \E azimuth \in SurfaceAzimuths, tilt \in SurfaceTilts, p \in RegistryIds :
       /\ heap' = heap \o CombinedProfile(heap[p], azimuth,
                                          heap[site.horizon_profile])
       /\ surface' = SurfaceInit("north", "FACADE", azimuth, tilt, 10,
                                 Percent(20), Len(heap) + 2)
  /\ UNCHANGED <<site, last, applied, solved, building>>

NewFacade ==
  /\ Running
  /\ surface = NoSurface
  /\ \E azimuth \in SurfaceAzimuths, tilt \in SurfaceTilts, p \in RegistryIds :
       /\ heap' = heap \o CombinedProfile(heap[p], azimuth,
                                          heap[site.horizon_profile])
       /\ surface' = FacadeInit(azimuth, tilt, Len(heap) + 2)
  /\ UNCHANGED <<site, last, applied, solved, building>>

CallSolveIrradiance ==
  /\ surface # NoSurface
  /\ solved = NoCall
  /\ \E tilt \in TiltArguments, azimuth \in AzimuthArguments,
        poa \in PoaSeries(site.tmy.dni.index) :
       LET resources == get_solar(site)
       IN  solved' =
             [op |-> "solve_irradiance", tilt |-> tilt, azimuth |-> azimuth,
              out |-> IF surface.kind = "Surface"
                        THEN Surface_solve_irradiance(heap, surface,
                               resources[1], resources[2], tilt, azimuth, poa)
                        ELSE Facade_solve_irradiance(heap, surface,
                               resources[1], resources[2], tilt, azimuth, poa)]
  /\ UNCHANGED <<heap, site, last, applied, surface, building>>

CallFindOptimalTilt ==
  /\ surface # NoSurface
  /\ solved = NoCall
  /\ \E tilt_range \in TiltRanges :
       \E poa \in [DOMAIN tilt_range -> PoaSeries(site.tmy.dni.index)] :
         solved' =
           [op |-> "find_optimal_tilt", tilt_range |-> tilt_range,
            out |-> IF surface.kind = "Surface"
                      THEN Surface_find_optimal_tilt(heap, surface, site,
                                                     tilt_range, poa)
                      ELSE Facade_find_optimal_tilt(heap, surface, site,
                                                    tilt_range, poa)]
  /\ UNCHANGED <<heap, site, last, applied, surface, building>>

NextSurface ==
  NewSurface \/ NewFacade \/ CallSolveIrradiance \/ CallFindOptimalTilt

SpecSurface == InitSurface /\ [][NextSurface]_vars

\* Solar azimuths, whole and fractional: in the front arc, on the ramp of a
\* wall, in the rear arc, over the ridge, and past the last grid point.
SampleAzimuths ==
  << 0, Deg(91) \div 2, Deg(181) \div 2, Deg(721) \div 4, Deg(1203) \div 4,
     Deg(719) \div 2 >>

\* Solar zeniths: overhead, 18.5 and 10 degrees up, on the horizon.
SampleZeniths == << 0, Deg(143) \div 2, Deg(80), Deg(90) >>

\* Every pairing of them, as the rows (zenith, azimuth) of a solar frame.
SamplePositions ==
  [r \in 1..(Len(SampleZeniths) * Len(SampleAzimuths)) |->
     << SampleZeniths[((r - 1) \div Len(SampleAzimuths)) + 1],
        SampleAzimuths[((r - 1) % Len(SampleAzimuths)) + 1] >>]

\* n consecutive rows of `rows` from row `first` on, column c, wrapping.
Window(rows, first, n, c) ==
  Arr([i \in 0..(n - 1) |-> rows[((first + i) % Len(rows)) + 1][c]])

\* One call of ViewProfile.apply on the profile at heap position p.
ApplyOn(objects, p, call) ==
  apply(objects[p], call.solar_zenith, call.solar_azimuth,
        call.dni, call.ghi, call.dhi)

\* The same series masked by the surface's combined profile and by each of
\* its two constituents: the rotated own profile (created just before the
\* combined one) and the site horizon.
CallApplyEach ==
  /\ surface # NoSurface
  /\ surface.kind = "Surface"
  /\ applied = NoCall
  /\ \E n \in 1..MaxLen, first \in 0..(Len(SamplePositions) - 1),
        w \in 0..(Len(WeatherRows) - 1) :
       LET call == [solar_zenith |->
                      Series(Window(SamplePositions, first, n, 1), TimeIndex(n)),
                    solar_azimuth |->
                      Series(Window(SamplePositions, first, n, 2), TimeIndex(n)),
                    dni |-> Series(Window(WeatherRows, w, n, 1), TimeIndex(n)),
                    ghi |-> Series(Window(WeatherRows, w, n, 2), TimeIndex(n)),
                    dhi |-> Series(Window(WeatherRows, w, n, 3), TimeIndex(n))]
       IN  applied' = call @@
             [op |-> "apply_each", error |-> "none",
              combined |-> ApplyOn(heap, surface.view_profile, call),
              rotated |-> ApplyOn(heap, surface.view_profile - 1, call),
              horizon |-> ApplyOn(heap, site.horizon_profile, call)]
  /\ UNCHANGED <<heap, site, last, surface, solved, building>>

NextCombined == NewSurface \/ CallApplyEach

SpecCombined == InitSurface /\ [][NextCombined]_vars

-----------------------------------------------------------------------------
(* Building *)

\* Azimuth.rotate
Azimuth_rotate(self, degrees) == PyMod(self + degrees, Full)

\* Building.__init__: surfaces is an empty dict (names in insertion order).
BuildingInit(name, azimuth, levels) ==
  [name |-> name, azimuth |-> azimuth, levels |-> levels,
   names |-> <<>>, surfaces |-> <<>>, calculated |-> "no"]

\* dict[key] = value: a new key goes last, an old key keeps its place.
DictSet(names, values, key, value) ==
  [names |-> IF key \in Range(names) THEN names ELSE Append(names, key),
   values |-> [k \in (DOMAIN values) \cup {key} |->
                 IF k = key THEN value ELSE values[k]]]

\* Building.add_surface, given the heap position of the combined profile.
add_surface(self, name, type, azimuth, tilt, area_per_level, efficiency, combined) ==
  LET d == DictSet(self.names, self.surfaces, name,
                   SurfaceInit(name, type, Azimuth_rotate(self.azimuth, azimuth),
                               tilt, area_per_level, efficiency, combined))
  IN  [self EXCEPT !.names = d.names, !.surfaces = d.values]

\* calculate_irradiance that leaves the number of levels out.
calculate_irradiance_one_level(objects, self, the_site, poa) ==
  IF self.names = <<>> THEN Raise("ValueError")
  ELSE
    LET resources == get_solar(the_site)
        results == [k \in DOMAIN self.surfaces |->
                      Surface_solve_irradiance(objects, self.surfaces[k],
                        resources[1], resources[2], None, None, poa[k]).result]
        index == resources[1].zenith.index
        captured == [k \in DOMAIN self.surfaces |->
                       [t \in DOMAIN index |->
                          Fraction(results[k].irradiance_df.poa_global[t]
                                     * self.surfaces[k].area_per_level
                                     * self.surfaces[k].efficiency.num,
                                   self.surfaces[k].efficiency.den)]]
        m == Len(self.names)
        df_long == [r \in 1..(Size(index) * m) |->
                      LET t == (r - 1) \div m
                          k == self.names[((r - 1) % m) + 1]
                      IN  [Datetime |-> index[t], SurfaceName |-> k,
                           SurfaceType |-> self.surfaces[k].type,
                           Generation |-> Fraction(captured[k][t].num,
                                                   captured[k][t].den * 1000)]]
    IN  [error |-> "none", results |-> results, generated_power |-> df_long]

\* Building.calculate_irradiance: every surface solved on the site's
\* series; captured = poa_global * area_per_level * efficiency, times the
\* levels; stacked into one row per timestamp and column; divided by 1000.
\* pd.concat of no columns raises ValueError.
calculate_irradiance(objects, self, the_site, poa) ==
  IF self.names = <<>> THEN Raise("ValueError")
  ELSE
    LET resources == get_solar(the_site)
        results == [k \in DOMAIN self.surfaces |->
                      Surface_solve_irradiance(objects, self.surfaces[k],
                        resources[1], resources[2], None, None, poa[k]).result]
        index == resources[1].zenith.index
        captured == [k \in DOMAIN self.surfaces |->
                       [t \in DOMAIN index |->
                          Fraction(results[k].irradiance_df.poa_global[t]
                                     * self.surfaces[k].area_per_level
                                     * self.surfaces[k].efficiency.num
                                     * self.levels,
                                   self.surfaces[k].efficiency.den)]]
        m == Len(self.names)
        df_long == [r \in 1..(Size(index) * m) |->
                      LET t == (r - 1) \div m
                          k == self.names[((r - 1) % m) + 1]
                      IN  [Datetime |-> index[t], SurfaceName |-> k,
                           SurfaceType |-> self.surfaces[k].type,
                           Generation |-> Fraction(captured[k][t].num,
                                                   captured[k][t].den * 1000)]]
    IN  [error |-> "none", results |-> results, generated_power |-> df_long]

MaxSurfaces == 2       \* add_surface calls on a building

BuildingLevels == {1, 5}
SurfaceNames == {"north", "south"}
SurfaceTypes == {"FACADE", "BALCONY"}

\* Rows of a surface definition: azimuth, profile, tilt, area per level (m2),
\* efficiency.
SurfaceRows ==
  { <<0, PANORAMIC_ID, Deg(90), 10, Percent(20)>>,
    <<Deg(180), BACKED_ID, Deg(90), 25, Percent(15)>> }

InitBuilding ==
  /\ heap = Imported(RidgeHorizon)
  /\ site = NewSite
  /\ last = NoCall
  /\ applied = NoCall
  /\ surface = NoSurface
  /\ solved = NoCall
  /\ \E levels \in BuildingLevels : building = BuildingInit("tower", 0, levels)

AddSurface ==
  /\ building.calculated = "no"
  /\ Len(heap) < HORIZON_ID + 2 * MaxSurfaces
  /\ \E name \in SurfaceNames, type \in SurfaceTypes, row \in SurfaceRows :
       /\ heap' = heap \o CombinedProfile(heap[row[2]],
                                          Azimuth_rotate(building.azimuth, row[1]),
                                          heap[site.horizon_profile])
       /\ building' = add_surface(building, name, type, row[1], row[3],
                                  row[4], row[5], Len(heap) + 2)
  /\ UNCHANGED <<site, last, applied, surface, solved>>

CalculateIrradiance ==
  /\ building.calculated = "no"
  /\ \E poa \in [DOMAIN building.surfaces -> PoaSeries(site.tmy.dni.index)] :
       LET out == calculate_irradiance(heap, building, site, poa)
       IN  building' =
             IF out.error # "none"
               THEN [building EXCEPT !.calculated = out.error]
               ELSE [building EXCEPT !.calculated = "yes"]
                      @@ [results |-> out.results,
                          generated_power |-> out.generated_power]
  /\ UNCHANGED <<heap, site, last, applied, surface, solved>>

NextBuilding == AddSurface \/ CalculateIrradiance

SpecBuilding == InitBuilding /\ [][NextBuilding]_vars

\* Profiles shared by reference: the transforms called on the registry
\* profiles and the site horizon, a surface built on them by add_surface
\* while the heap has room, and the surfaces' profiles applied by
\* calculate_irradiance.
SharedSurface == Len(heap) < MaxProfiles /\ AddSurface

SharedCalculate == building.names # <<>> /\ CalculateIrradiance

NextShared ==
  CallMirror \/ CallRotate \/ CallCombine \/ SharedSurface \/ SharedCalculate

SpecShared == InitBuilding /\ [][NextShared]_vars

-----------------------------------------------------------------------------
(* Bulk construction: profile_from_str and Building.load_surfaces_from_csv *)

\* profile_from_str: a match statement without a default case; a name that
\* matches no case falls off the end of the function, which returns None.
profile_from_str(str) ==
  CASE str = "BACKED" -> [error |-> "none", value |-> Some(BACKED_ID)]
    [] str = "PANORAMIC" -> [error |-> "none", value |-> Some(PANORAMIC_ID)]
    [] str = "NE_BALCONY" -> [error |-> "none", value |-> Some(NE_BALCONY_ID)]
    [] str = "NW_BALCONY" -> [error |-> "none", value |-> Some(NW_BALCONY_ID)]
    [] OTHER -> [error |-> "none", value |-> None]

\* The members of the SurfaceType enum.
SurfaceType == {"UNKNOWN", "FACADE", "BALCONY"}

\* SurfaceType[tag]: lookup of an enum member by name.
SurfaceType_getitem(tag) ==
  IF tag \in SurfaceType THEN [error |-> "none", value |-> tag]
  ELSE Raise("KeyError")

\* Building.add_surface with the profile as the caller passes it: Surface(...)
\* is evaluated first (view_profile.rotate on None raises AttributeError),
\* and only then stored under the name.
Building_add_surface(objects, self, the_site, name, type, azimuth, view_profile, tilt, area_per_level, efficiency) ==
  IF view_profile = None
    THEN [error |-> "AttributeError", objects |-> objects, self |-> self]
    ELSE [error |-> "none",
          objects |-> objects \o
            CombinedProfile(objects[Given(view_profile)],
                            Azimuth_rotate(self.azimuth, azimuth),
                            objects[the_site.horizon_profile]),
          self |-> add_surface(self, name, type, azimuth, tilt, area_per_level,
                               efficiency, Len(objects) + 2)]

\* The loop of load_surfaces_from_csv from row i on: the arguments of
\* add_surface are evaluated in order (SurfaceType[row.Type] before
\* profile_from_str(row.Profile)), and the first exception leaves the loop
\* with the building as the earlier rows made it.
RECURSIVE LoadRows(_, _, _, _, _)
LoadRows(objects, self, the_site, rows, i) ==
  IF i > Len(rows) THEN [error |-> "none", objects |-> objects, self |-> self]
  ELSE
    LET row == rows[i]
        type == SurfaceType_getitem(row.Type)
    IN  IF type.error # "none"
          THEN [error |-> type.error, objects |-> objects, self |-> self]
        ELSE
          LET profile == profile_from_str(row.Profile)
          IN  IF profile.error # "none"
                THEN [error |-> profile.error, objects |-> objects, self |-> self]
              ELSE
                LET added == Building_add_surface(objects, self, the_site,
                               row.Name, type.value, row.Azimuth, profile.value,
                               row.Tilt, row.Area, row.Efficiency)
                IN  IF added.error # "none" THEN added
                    ELSE LoadRows(added.objects, added.self, the_site, rows, i + 1)

\* Building.load_surfaces_from_csv, given the rows pd.read_csv returns.
load_surfaces_from_csv(objects, self, the_site, rows) ==
  LoadRows(objects, self, the_site, rows, 1)

\* Names looked up in the registry: the four registered ones, a name of
\* another case, and a name that is not registered at all.
ProfileNames ==
  {"PANORAMIC", "BACKED", "NE_BALCONY", "NW_BALCONY", "backed", "ROOF"}

\* Rows of a surface file: well-formed ones, one with an unknown type tag,
\* one with an unknown profile name.
CsvRows ==
  { [Name |-> "north", Type |-> "FACADE", Azimuth |-> 0, Profile |-> "BACKED",
     Tilt |-> Deg(90), Area |-> 10, Efficiency |-> Percent(20)],
    [Name |-> "south", Type |-> "BALCONY", Azimuth |-> Deg(180),
     Profile |-> "PANORAMIC", Tilt |-> Deg(90), Area |-> 25,
     Efficiency |-> Percent(15)],
    [Name |-> "west", Type |-> "FACADE", Azimuth |-> Deg(359),
     Profile |-> "NW_BALCONY", Tilt |-> Deg(90), Area |-> 10,
     Efficiency |-> Percent(20)],
    [Name |-> "roof", Type |-> "ROOF", Azimuth |-> 0, Profile |-> "PANORAMIC",
     Tilt |-> 0, Area |-> 40, Efficiency |-> Percent(20)],
    [Name |-> "east", Type |-> "FACADE", Azimuth |-> 0, Profile |-> "ROOF",
     Tilt |-> Deg(90), Area |-> 10, Efficiency |-> Percent(20)] }

\* Surface files: up to MaxSurfaces rows.
CsvFiles == UNION { [1..n -> CsvRows] : n \in 0..MaxSurfaces }

InitLoad ==
  /\ \E h \in HorizonData : heap = Imported(h)
  /\ site = NewSite
  /\ last = NoCall
  /\ applied = NoCall
  /\ surface = NoSurface
  /\ solved = NoCall
  /\ \E levels \in BuildingLevels : building = BuildingInit("tower", 0, levels)

CallProfileFromStr ==
  /\ last = NoCall
  /\ \E str \in ProfileNames :
       LET out == profile_from_str(str)
       IN  last' = [op |-> "profile_from_str", str |-> str,
                    error |-> out.error, value |-> out.value]
  /\ UNCHANGED <<heap, site, applied, surface, solved, building>>

LoadSurfacesFromCsv ==
  /\ last = NoCall
  /\ \E rows \in CsvFiles :
       LET out == load_surfaces_from_csv(heap, building, site, rows)
       IN  /\ heap' = out.objects
           /\ building' = out.self
           /\ last' = [op |-> "load_surfaces_from_csv", rows |-> rows,
                       error |-> out.error]
  /\ UNCHANGED <<site, applied, surface, solved>>

NextLoad == CallProfileFromStr \/ LoadSurfacesFromCsv

SpecLoad == InitLoad /\ [][NextLoad]_vars

-----------------------------------------------------------------------------
(* Properties of the ViewProfile transforms, under SpecProfile *)

Degrees360 == 0..(N360 - 1)

\* C4: rotate by a whole number d of degrees, of either sign, returns a
\* profile whose elevation at every degree k is the receiver's elevation at
\* degree (k - d) mod 360; so rotate(0) reproduces the receiver, and
\* rotate(90) of BACKED has at azimuth 200 what BACKED has at azimuth 110.
C4_RotateShifts ==
  (last.op = "rotate") =>
    /\ last.error = "none"
    /\ \A k \in Degrees360 :
         heap[last.result].elevation[k] =
           heap[last.self].elevation[PyMod(k - (last.degrees \div Units), N360)]
    /\ (last.degrees = 0) =>
         heap[last.result].elevation = heap[last.self].elevation
    /\ (last.self = BACKED_ID /\ last.degrees = Deg(90)) =>
         heap[last.result].elevation[200] = heap[BACKED_ID].elevation[110]

C4_Witness ==
  /\ last.op = "rotate"
  /\ last.self = BACKED_ID
  /\ last.degrees = Deg(90)
  /\ heap[last.result].elevation[200] = Deg(90)
  /\ heap[BACKED_ID].elevation[200] = Deg(90)
  /\ heap[last.result].elevation[100] = 0

\* C5: combine returns, at every degree, exactly the larger of the two
\* input elevations; so it is commutative, and idempotent.
C5_CombineIsMax ==
  (last.op = "combine") =>
    LET A == heap[last.self]
        B == heap[last.profile2]
        R == heap[last.result]
    IN  /\ last.error = "none"
        /\ \A k \in Degrees360 :
             /\ R.elevation[k] >= A.elevation[k]
             /\ R.elevation[k] >= B.elevation[k]
             /\ R.elevation[k] \in {A.elevation[k], B.elevation[k]}
        /\ R.elevation = combine(B, A).elevation
        /\ (last.self = last.profile2) => R.elevation = A.elevation

C5_Witness ==
  /\ last.op = "combine"
  /\ last.self = BACKED_ID
  /\ last.profile2 = NE_BALCONY_ID
  /\ \E k \in Degrees360 :
       heap[BACKED_ID].elevation[k] > heap[NE_BALCONY_ID].elevation[k]
  /\ \E k \in Degrees360 :
       heap[BACKED_ID].elevation[k] < heap[NE_BALCONY_ID].elevation[k]

\* C6: mirror returns the receiver's elevation array reversed (degree k
\* gets the value of degree 359 - k), and mirroring twice gives back the
\* original array.
C6_MirrorReverses ==
  (last.op = "mirror") =>
    LET A == heap[last.self]
        R == heap[last.result]
    IN  /\ last.error = "none"
        /\ \A k \in Degrees360 : R.elevation[k] = A.elevation[N360 - 1 - k]
        /\ mirror(R).elevation = A.elevation

C6_Witness ==
  /\ last.op = "mirror"
  /\ last.self = NW_BALCONY_ID
  /\ heap[last.result].elevation # heap[last.self].elevation
  /\ heap[last.result].elevation = heap[NE_BALCONY_ID].elevation

\* The control points of the constructor call are malformed: the two
\* sequences differ in length, or one of them is empty.
Malformed(call) ==
  \/ Size(call.azimuth) # Size(call.elevation)
  \/ Size(call.azimuth) = 0
  \/ Size(call.elevation) = 0

\* C10 as stated: constructing a ViewProfile from malformed control points
\* fails with InvalidProfileError and produces no profile object.
C10_AsStated ==
  (last.op = "init" /\ Malformed(last)) =>
    (last.error = "InvalidProfileError" /\ last.result = 0)

\* C10 as amended: constructing a ViewProfile from malformed control points
\* fails with the ValueError that np.interp raises, and produces no profile
\* object: the heap of profiles is what it was before the call.
C10_RaisesValueError ==
  [][(last'.op = "init" /\ Malformed(last')) =>
       (last'.error = "ValueError" /\ last'.result = 0 /\ heap' = heap)]_vars

C10_Witness ==
  /\ last.op = "init"
  /\ Size(last.azimuth) = 2
  /\ Size(last.elevation) = 1
  /\ last.error = "ValueError"

-----------------------------------------------------------------------------
(* Properties of ViewProfile.apply, under SpecApply *)

Timestamps == DOMAIN applied.solar_zenith.values

SunElevation(t) == Deg(90) - applied.solar_zenith.values[t]

WholeDegree(az) == az % Units = 0

\* C1: at every timestamp the masked dni is 0 when the sun's elevation
\* (90 - zenith) is not strictly greater than the blocking elevation at the
\* solar azimuth (equal counts as blocked) and is the input dni otherwise;
\* the adjusted ghi is dhi wherever the masked dni is 0 and the input ghi
\* otherwise; the returned dhi is the input dhi.  The blocking elevation is
\* the one apply returns, which at a whole degree is the profile's sample.
C1_ApplyMasks ==
  (applied.op = "apply") =>
    /\ applied.out.error = "none"
    /\ DOMAIN applied.out.masked_dni = Timestamps
    /\ DOMAIN applied.out.adjusted_ghi = Timestamps
    /\ applied.out.blocked_elevation_at_dt.index = applied.solar_azimuth.index
    /\ applied.out.dhi = applied.dhi
    /\ \A t \in Timestamps :
         LET blocking == applied.out.blocked_elevation_at_dt.values[t]
             az == applied.solar_azimuth.values[t]
         IN  /\ WholeDegree(az) =>
                  blocking = heap[applied.self].elevation[az \div Units]
             /\ applied.out.masked_dni[t] =
                  IF SunElevation(t) > blocking THEN applied.dni.values[t] ELSE 0
             /\ applied.out.adjusted_ghi[t] =
                  IF applied.out.masked_dni[t] = 0 THEN applied.dhi.values[t]
                                                   ELSE applied.ghi.values[t]

\* The sun exactly on the profile (BACKED's wall, sun at the zenith) with
\* direct irradiance to lose, next to a timestamp where it is let through.
C1_Witness ==
  /\ applied.op = "apply"
  /\ applied.self = BACKED_ID
  /\ \E t \in Timestamps :
       /\ applied.solar_azimuth.values[t] = Deg(180)
       /\ SunElevation(t) = applied.out.blocked_elevation_at_dt.values[t]
       /\ applied.dni.values[t] > 0
       /\ applied.out.masked_dni[t] = 0
       /\ applied.out.adjusted_ghi[t] = applied.dhi.values[t]
  /\ \E t \in Timestamps :
       /\ applied.out.masked_dni[t] > 0
       /\ applied.out.adjusted_ghi[t] = applied.ghi.values[t]
       /\ applied.ghi.values[t] # applied.dhi.values[t]

\* Linear interpolation across the 0/360 seam: between the sample at 359
\* degrees and the sample at 0 degrees.
WrappedElevation(self, az) ==
  self.elevation[N360 - 1]
    + ((az - Deg(N360 - 1)) * (self.elevation[0] - self.elevation[N360 - 1]))
        \div Units

\* C2 as stated: for a solar azimuth strictly between 359 and 360 degrees
\* the blocking elevation is the linear interpolation between the profile's
\* elevation at 359 and its elevation at 0, not the value at 359.
C2_WrapsAtSeam ==
  (applied.op = "apply") =>
    \A t \in Timestamps :
      LET az == applied.solar_azimuth.values[t]
      IN  (Deg(N360 - 1) < az /\ az < Full) =>
            applied.out.blocked_elevation_at_dt.values[t] =
              WrappedElevation(heap[applied.self], az)

AllZero(self) == \A k \in DOMAIN self.elevation : self.elevation[k] = 0

\* C3 as stated: a profile that is 0 at every degree leaves dni and ghi
\* equal to their inputs at every timestamp where the sun is above the
\* horizontal, whatever the non-negative inputs.
C3_AsStated ==
  (applied.op = "apply" /\ AllZero(heap[applied.self])) =>
    \A t \in Timestamps :
      (SunElevation(t) > 0) =>
        /\ applied.out.masked_dni[t] = applied.dni.values[t]
        /\ applied.out.adjusted_ghi[t] = applied.ghi.values[t]

\* C3 as amended: a profile that is 0 at every degree leaves dni equal to
\* its input at every timestamp where the sun is above the horizontal, and
\* leaves ghi equal to its input there when the input dni is not 0; where
\* the input dni is 0 the adjusted ghi is the input dhi.
C3_PanoramicNoOp ==
  (applied.op = "apply" /\ AllZero(heap[applied.self])) =>
    \A t \in Timestamps :
      (SunElevation(t) > 0) =>
        /\ applied.out.masked_dni[t] = applied.dni.values[t]
        /\ (applied.dni.values[t] # 0) =>
             applied.out.adjusted_ghi[t] = applied.ghi.values[t]
        /\ (applied.dni.values[t] = 0) =>
             applied.out.adjusted_ghi[t] = applied.dhi.values[t]

C3_Witness ==
  /\ applied.op = "apply"
  /\ applied.self = PANORAMIC_ID
  /\ AllZero(heap[PANORAMIC_ID])
  /\ \E t \in Timestamps :
       /\ SunElevation(t) > 0
       /\ applied.dni.values[t] > 0
       /\ applied.out.adjusted_ghi[t] = applied.ghi.values[t]
  /\ \E t \in Timestamps :
       /\ SunElevation(t) > 0
       /\ applied.dni.values[t] = 0
       /\ applied.ghi.values[t] # applied.dhi.values[t]
       /\ applied.out.adjusted_ghi[t] = applied.dhi.values[t]

-----------------------------------------------------------------------------
(* Properties of Surface and Facade, under SpecSurface *)

\* C7 as stated: find_optimal_tilt on a Surface or a Facade completes for
\* any non-empty tilt range and returns the tilt whose re-solved total is
\* maximal, the first such tilt on ties, with a mapping that holds one
\* result for every tilt of the range.
C7_FindsOptimalTilt ==
  (solved.op = "find_optimal_tilt" /\ solved.tilt_range # <<>>) =>
    /\ solved.out.error = "none"
    /\ DOMAIN solved.out.results = Range(solved.tilt_range)
    /\ \E i \in DOMAIN solved.tilt_range :
         /\ solved.out.best_tilt = Some(solved.tilt_range[i])
         /\ \A j \in DOMAIN solved.tilt_range :
              LET best == total(solved.out.results[solved.tilt_range[i]])
                  other == total(solved.out.results[solved.tilt_range[j]])
              IN  /\ other <= best
                  /\ (j < i) => other < best

\* The tilt and the azimuth (orientation) of the surface under test.
OwnTilt == surface.tilt
OwnAzimuth == IF surface.kind = "Surface" THEN surface.azimuth
                                          ELSE surface.orientation

\* C8 as stated: solve_irradiance called with an explicit tilt (or azimuth /
\* orientation) uses exactly that value for the transposition and records it
\* in the result, for every value of the argument, 0 included; the surface's
\* own tilt / azimuth is used only when the argument is omitted.
C8_ExplicitArgumentUsed ==
  (solved.op = "solve_irradiance") =>
    /\ solved.out.error = "none"
    /\ solved.out.transposition.surface_tilt =
         (IF solved.tilt = None THEN OwnTilt ELSE Given(solved.tilt))
    /\ solved.out.result.tilt = solved.out.transposition.surface_tilt
    /\ solved.out.transposition.surface_azimuth =
         (IF solved.azimuth = None THEN OwnAzimuth ELSE Given(solved.azimuth))
    /\ solved.out.result.azimuth = solved.out.transposition.surface_azimuth

-----------------------------------------------------------------------------
(* Properties of Building, under SpecBuilding *)

\* The rows of the long-form result for one timestamp, name and type.
RecordsOf(t, k, type) ==
  {r \in DOMAIN building.generated_power :
     /\ building.generated_power[r].Datetime = t
     /\ building.generated_power[r].SurfaceName = k
     /\ building.generated_power[r].SurfaceType = type}

\* C9: after calculate_irradiance, for every surface and timestamp the
\* generation in kWh is poa_global * area_per_level * efficiency * levels
\* / 1000, so it is linear in the number of levels, and the long-form result
\* holds exactly one record per (timestamp, surface name, surface type).
C9_GenerationScalesWithLevels ==
  (building.calculated = "yes") =>
    LET index == site.tmy.dni.index
    IN  /\ Len(building.generated_power)
             = Size(index) * Cardinality(DOMAIN building.surfaces)
        /\ \A r \in DOMAIN building.generated_power :
             building.generated_power[r].SurfaceName \in DOMAIN building.surfaces
        /\ \A k \in DOMAIN building.surfaces, t \in DOMAIN index :
             LET s == building.surfaces[k]
                 rows == RecordsOf(index[t], k, s.type)
                 poa_global == building.results[k].irradiance_df.poa_global[t]
             IN  /\ Cardinality(rows) = 1
                 /\ \A r \in rows :
                      /\ building.generated_power[r].Generation.num =
                           building.levels
                             * (poa_global * s.area_per_level * s.efficiency.num)
                      /\ building.generated_power[r].Generation.den =
                           s.efficiency.den * 1000

\* poa_global = 100 on 10 m2 at efficiency 0.2 over 5 levels: 1.0 kWh.
C9_Witness ==
  /\ building.calculated = "yes"
  /\ building.levels = 5
  /\ Len(building.names) = 2
  /\ \E r \in DOMAIN building.generated_power :
       LET row == building.generated_power[r]
           s == building.surfaces[row.SurfaceName]
       IN  /\ s.area_per_level = 10
           /\ s.efficiency = Percent(20)
           /\ building.results[row.SurfaceName].irradiance_df.poa_global[row.Datetime] = 100
           /\ row.Generation.num = row.Generation.den

-----------------------------------------------------------------------------
(* Properties of the bulk construction, under SpecLoad *)

RegisteredNames == {"PANORAMIC", "BACKED", "NE_BALCONY", "NW_BALCONY"}

\* C11: looking up a name that is not one of the registered identifiers
\* fails with ConfigurationError at the lookup; profile_from_str returns no
\* value, None included, for such a name.
C11_UnknownNameRaises ==
  (last.op = "profile_from_str" /\ last.str \notin RegisteredNames) =>
    last.error = "ConfigurationError"

\* C15: a load that fails on some row leaves the building's surface mapping
\* as it was before the call: no surface of an earlier row remains added.
C15_FailedLoadLeavesNothing ==
  [][(last'.op = "load_surfaces_from_csv" /\ last'.error # "none")
       => (/\ building'.names = building.names
           /\ building'.surfaces = building.surfaces)]_vars

-----------------------------------------------------------------------------
(* Properties of ViewProfile.apply on misaligned series, under SpecMisaligned *)

\* The solar-geometry series and the irradiance series of the call share
\* one time index.
Aligned(call) ==
  /\ call.solar_zenith.index = call.solar_azimuth.index
  /\ call.dni.index = call.solar_zenith.index
  /\ call.ghi.index = call.solar_zenith.index
  /\ call.dhi.index = call.solar_zenith.index

\* C12: apply fails with MisalignedSeriesError whenever the solar-geometry
\* series and the irradiance series do not share the same time index, of
\* equal or of different lengths; it returns no masked output then.
C12_MisalignedRaises ==
  (applied.op = "apply" /\ ~Aligned(applied)) =>
    applied.out.error = "MisalignedSeriesError"

-----------------------------------------------------------------------------
(* Properties of a Surface's combined profile, under SpecCombined *)

\* C14: at every timestamp, of whole or fractional solar azimuth, where the
\* site horizon alone or the rotated own profile alone masks dni to 0, the
\* surface's combined profile masks dni to 0 as well.
C14_CombinedBlocksMore ==
  (applied.op = "apply_each") =>
    /\ applied.combined.error = "none"
    /\ applied.rotated.error = "none"
    /\ applied.horizon.error = "none"
    /\ \A t \in DOMAIN applied.dni.values :
         (\/ applied.horizon.masked_dni[t] = 0
          \/ applied.rotated.masked_dni[t] = 0)
           => applied.combined.masked_dni[t] = 0

\* The horizon blocks a sun that the rotated own profile lets through, at a
\* fractional azimuth, and the combined profile blocks it.
C14_Witness ==
  /\ applied.op = "apply_each"
  /\ \E t \in DOMAIN applied.dni.values :
       /\ applied.solar_azimuth.values[t] % Units # 0
       /\ applied.dni.values[t] # 0
       /\ applied.horizon.masked_dni[t] = 0
       /\ applied.rotated.masked_dni[t] # 0
       /\ applied.combined.masked_dni[t] = 0
       /\ applied.combined.blocked_elevation_at_dt.values[t]
            > applied.rotated.blocked_elevation_at_dt.values[t]

-----------------------------------------------------------------------------
(* Properties of shared profiles, under SpecShared *)

\* The profile objects the step creates.
Created == (Len(heap) + 1)..Len(heap')

\* C13: no call changes a profile that exists: after every rotate, mirror,
\* combine, surface construction and apply, each profile constructed before
\* has the 360 samples at azimuth 0..359 and the elevations it had; and what
\* a transform or a surface construction returns is a new object, none of
\* the existing ones.
C13_ProfilesImmutable ==
  [][/\ Len(heap') >= Len(heap)
     /\ \A i \in 1..Len(heap) :
          /\ heap'[i] = heap[i]
          /\ heap'[i].azimuth = AZIMUTH_360
          /\ DOMAIN heap'[i].elevation = Degrees360
     /\ (last' # last) => (Created # {} /\ last'.result \in Created)
     /\ (building'.names # building.names \/ building'.surfaces # building.surfaces)
          => \E k \in DOMAIN building'.surfaces :
               building'.surfaces[k].view_profile \in Created
     /\ (building'.calculated # building.calculated) => heap' = heap]_vars

\* A surface was built on the shared BACKED profile and the shared horizon,
\* its profile was applied, and both shared profiles are what they were.
C13_Witness ==
  /\ building.calculated = "yes"
  /\ \E k \in DOMAIN building.surfaces :
       /\ building.surfaces[k].view_profile = Len(heap)
       /\ heap[Len(heap)].elevation # heap[BACKED_ID].elevation
       /\ heap[Len(heap)].elevation # heap[HORIZON_ID].elevation
       /\ heap[Len(heap)].elevation[0] = heap[BACKED_ID].elevation[180]
       /\ heap[Len(heap)].elevation[0] = Deg(90)
  /\ heap[BACKED_ID] = Object(BACKED)
  /\ heap[HORIZON_ID] = Object(SiteHorizon(RidgeHorizon))

====
